---- MODULE Spec2Model ----
(***************************************************************************)
(* Model of src/utils/dynamic_programming.py: the two-row table extractor  *)
(* extract_rs_from_df and the equipment-replacement solver                 *)
(* compute_replacement_plan (Bellman tables F / decisions, then the plan   *)
(* walk).  Numbers are integers: on the bounded integer inputs drawn here  *)
(* every float64 operation of the source is exact.                         *)
(***************************************************************************)
EXTENDS Integers, Sequences, FiniteSets, TLC

\* ---------------------------------------------------------------- bounds
MaxLen == 3        \* longest r / s profile (max_age + 1)
MaxVal == 1        \* r[t], s[t] are drawn from 0..MaxVal
MaxP == 1          \* P is drawn from -1..MaxP
MaxCols == 2       \* widest table handed to extract_rs_from_df
MaxRows == 3       \* tallest table handed to extract_rs_from_df
MaxCell == 1       \* numeric cells carry 0..MaxCell

\* ------------------------------------------------------------- constants
\* The two decision labels of lines 43/46/61/64 (Cyrillic strings in the
\* source, transliterated) and numpy's empty object cell.
Keep == "Keep"
Replace == "Replace"
None == "None"

VARIABLES
    r, s, P, t0,            \* arguments of compute_replacement_plan
    pc,                     \* position inside compute_replacement_plan
    max_age, n_years,       \* locals, lines 32-33
    F, decisions,           \* the two tables, lines 36-37
    k,                      \* outer loop index (lines 49, 70)
    plan, current_age, total_profit,
    reads,                  \* raw (k, age) indices the plan walk subscripts the tables with
    err,                    \* exception raised out of compute_replacement_plan
    result,                 \* returned dict (or None)
    df, epc, ext            \* extract_rs_from_df: table, position, outcome

vars == <<r, s, P, t0, pc, max_age, n_years, F, decisions, k, plan,
          current_age, total_profit, reads, err, result, df, epc, ext>>

planVars == <<r, s, P, t0, pc, max_age, n_years, F, decisions, k, plan,
              current_age, total_profit, reads, err, result>>
extVars == <<df, epc, ext>>

\* ------------------------------------------------------------ primitives
\* Python list element lst[i] for a 0-based index known to be in range.
At(lst, i) == lst[i + 1]

\* numpy subscript on an axis of the given size: negative indices wrap,
\* anything else out of range raises IndexError (modelled as "IndexError").
NpIndex(i, size) ==
    IF i >= 0 /\ i < size THEN i
    ELSE IF i < 0 /\ i >= 0 - size THEN i + size
    ELSE "IndexError"

NpInRange(i, size) == i >= 0 - size /\ i < size

\* float values extended with -inf (np.inf is only ever used negated).
Fin(x) == [inf |-> FALSE, v |-> x]
NegInf == [inf |-> TRUE, v |-> 0]
\* a >= b on floats where either side may be -inf
GE(a, b) ==
    IF a.inf THEN b.inf
    ELSE (b.inf \/ a.v >= b.v)

\* ------------------------------------------------ compute_replacement_plan
\* line 36: np.zeros((rows, cols)); line 37: np.empty(..., dtype=object)
Zeros(rows, cols) == [i \in 0..(rows - 1) |-> [j \in 0..(cols - 1) |-> 0]]
Empty(rows, cols) == [i \in 0..(rows - 1) |-> [j \in 0..(cols - 1) |-> None]]

\* Variant of BaseValue: the forced replacement of the last year forgets the
\* first-year revenue r[0] of the new unit.
BaseValue_NoFirstRevenue(rr, ss, PP, ma, age) ==
    IF age < ma THEN At(rr, age)
    ELSE At(ss, age) - PP

\* lines 41-46: the k = 1 row
BaseValue(rr, ss, PP, ma, age) ==
    IF age < ma THEN At(rr, age)
    ELSE At(ss, age) - PP + At(rr, 0)

\* Variant of BaseDecision: the last year keeps at every age (t <= max_age).
BaseDecision_AlwaysKeep(ma, age) == IF age <= ma THEN Keep ELSE Replace

BaseDecision(ma, age) == IF age < ma THEN Keep ELSE Replace

\* lines 52-55
KeepValue(rr, ma, FF, kk, age) ==
    IF age < ma THEN Fin(At(rr, age) + FF[kk - 1][age + 1])
    ELSE NegInf

\* Variant of ReplaceValue: the replacement year earns no r[0].
ReplaceValue_NoFirstRevenue(rr, ss, PP, FF, kk, age) ==
    Fin(At(ss, age) - PP + FF[kk - 1][1])

\* line 57
ReplaceValue(rr, ss, PP, FF, kk, age) ==
    Fin(At(ss, age) - PP + At(rr, 0) + FF[kk - 1][1])

\* Variant of ChooseKeep: strict comparison, so that a tie replaces.
ChooseKeep_Strict(keep_value, replace_value) == ~GE(replace_value, keep_value)

\* line 59: the branch condition
ChooseKeep(keep_value, replace_value) == GE(keep_value, replace_value)

\* Variant of ChosenValue: the replace value is stored whatever was chosen.
ChosenValue_AlwaysReplace(keep_value, replace_value) == replace_value.v

\* lines 60/63 and 61/64
ChosenValue(keep_value, replace_value) ==
    IF ChooseKeep(keep_value, replace_value) THEN keep_value.v ELSE replace_value.v
ChosenDecision(keep_value, replace_value) ==
    IF ChooseKeep(keep_value, replace_value) THEN Keep ELSE Replace

\* Variant of PlanYear: 0-based years.
PlanYear_ZeroBased(ny, kk) == ny - kk

\* line 73: the year written into a plan entry
PlanYear(ny, kk) == ny - kk + 1

\* lines 72-76
PlanEntry(ny, kk, decision, age) ==
    [year |-> PlanYear(ny, kk), decision |-> decision, age |-> age]

\* Variant of NextAge: a replaced unit enters the next year at age 0.
NextAge_ReplaceToZero(decision, age) == IF decision = Replace THEN 0 ELSE age + 1

\* lines 77-80
NextAge(decision, age) == IF decision = Replace THEN 1 ELSE age + 1

Profiles(len) == [1..len -> 0..MaxVal]

Init ==
    /\ \E len \in 1..MaxLen :
          /\ r \in Profiles(len)
          /\ s \in Profiles(len)
          /\ t0 \in (0 - 1)..len
    /\ P \in (0 - 1)..MaxP
    /\ pc = "start"
    /\ max_age = 0 /\ n_years = 0
    /\ F = <<>> /\ decisions = <<>>
    /\ k = 0
    /\ plan = <<>> /\ current_age = 0 /\ total_profit = 0
    /\ reads = {}
    /\ err = None /\ result = None
    /\ df = <<>> /\ epc = "idle" /\ ext = None

\* lines 32-37: derive max_age / n_years and allocate both tables
Allocate ==
    /\ pc = "start"
    /\ max_age' = Len(r) - 1
    /\ n_years' = Len(r) - 1
    /\ F' = Zeros(Len(r), Len(r))
    /\ decisions' = Empty(Len(r), Len(r))
    /\ pc' = "base"
    /\ UNCHANGED <<r, s, P, t0, k, plan, current_age, total_profit, reads,
                   err, result, df, epc, ext>>

\* where control goes once the k = 1 loop is over (line 49 / line 67)
AfterBase == IF 2 <= n_years THEN "induct" ELSE "recon"

\* lines 40-46: the k = 1 loop.  Row 1 does not exist when n_years = 0,
\* and the first store F[1][0] raises IndexError with nothing written.
BaseRow ==
    /\ pc = "base"
    /\ IF ~NpInRange(1, n_years + 1)
         THEN /\ err' = "IndexError"
              /\ pc' = "raised"
              /\ UNCHANGED <<F, decisions, k>>
         ELSE /\ F' = [F EXCEPT ![1] =
                         [age \in 0..max_age |-> BaseValue(r, s, P, max_age, age)]]
              /\ decisions' = [decisions EXCEPT ![1] =
                         [age \in 0..max_age |-> BaseDecision(max_age, age)]]
              /\ pc' = AfterBase
              /\ k' = IF AfterBase = "induct" THEN 2 ELSE n_years
              /\ err' = err
    /\ UNCHANGED <<r, s, P, t0, max_age, n_years, plan, current_age,
                   total_profit, reads, result, df, epc, ext>>

\* lines 50-64: one iteration of the outer loop of the inductive step, the
\* whole row k (every cell of it reads row k - 1 only)
InductRow ==
    /\ pc = "induct"
    /\ F' = [F EXCEPT ![k] =
                [age \in 0..max_age |->
                    ChosenValue(KeepValue(r, max_age, F, k, age),
                                ReplaceValue(r, s, P, F, k, age))]]
    /\ decisions' = [decisions EXCEPT ![k] =
                [age \in 0..max_age |->
                    ChosenDecision(KeepValue(r, max_age, F, k, age),
                                   ReplaceValue(r, s, P, F, k, age))]]
    /\ IF k < n_years
         THEN /\ k' = k + 1 /\ pc' = pc
         ELSE /\ k' = n_years /\ pc' = "recon"
    /\ UNCHANGED <<r, s, P, t0, max_age, n_years, plan, current_age,
                   total_profit, reads, err, result, df, epc, ext>>

\* lines 67-69: start of the plan walk; F[n_years][t0] is a numpy subscript
ReconStart ==
    /\ pc = "recon"
    /\ plan' = <<>>
    /\ current_age' = t0
    /\ reads' = reads \cup {<<n_years, t0>>}
    /\ IF NpInRange(t0, max_age + 1)
         THEN /\ total_profit' = F[n_years][NpIndex(t0, max_age + 1)]
              /\ pc' = "walk"
              /\ err' = err
         ELSE /\ err' = "IndexError"
              /\ pc' = "raised"
              /\ UNCHANGED total_profit
    /\ k' = n_years
    /\ UNCHANGED <<r, s, P, t0, max_age, n_years, F, decisions, result,
                   df, epc, ext>>

\* lines 70-80: one iteration of the plan walk
WalkStep ==
    /\ pc = "walk"
    /\ k >= 1
    /\ reads' = reads \cup {<<k, current_age>>}
    /\ IF NpInRange(current_age, max_age + 1)
         THEN LET decision == decisions[k][NpIndex(current_age, max_age + 1)]
              IN /\ plan' = Append(plan, PlanEntry(n_years, k, decision, current_age))
                 /\ current_age' = NextAge(decision, current_age)
                 /\ k' = k - 1
                 /\ UNCHANGED <<pc, err>>
         ELSE /\ err' = "IndexError"
              /\ pc' = "raised"
              /\ UNCHANGED <<plan, current_age, k>>
    /\ UNCHANGED <<r, s, P, t0, max_age, n_years, F, decisions,
                   total_profit, result, df, epc, ext>>

\* lines 82-87
Return ==
    /\ pc = "walk"
    /\ k = 0
    /\ result' = [total_profit |-> total_profit, plan |-> plan]
    /\ pc' = "done"
    /\ UNCHANGED <<r, s, P, t0, max_age, n_years, F, decisions, k, plan,
                   current_age, total_profit, reads, err, df, epc, ext>>

\* ------------------------------------------------------ extract_rs_from_df
\* A cell is a number, a numeric text (float("1") succeeds), a text that
\* float() rejects with ValueError, or an object (a date, None) that float()
\* rejects with TypeError.
NumCells == [kind : {"num"}, v : 0..MaxCell]
StrCells == {[kind |-> "str", v |-> 1]}
BadCells == {[kind |-> "bad", v |-> 0], [kind |-> "obj", v |-> 0]}
Cells == NumCells \cup StrCells \cup BadCells

Min2(a, b) == IF a < b THEN a ELSE b

\* Variant of ToFloat: a cell float() rejects is taken as its payload.
ToFloat_Lenient(x) == [exc |-> None, v |-> x.v]

\* float(x) of lines 13-14: the number, or the exception raised
ToFloat(x) ==
    IF x.kind = "bad" THEN [exc |-> "ValueError", v |-> 0]
    ELSE IF x.kind = "obj" THEN [exc |-> "TypeError", v |-> 0]
    ELSE [exc |-> None, v |-> x.v]

\* the list comprehension of line 13 / 14 over row i (0-based) of the table
RowFloats(tb, i) == [j \in 1..tb.ncols |-> ToFloat(tb.rows[i + 1][j]).v]
RowRaises(tb, i) == \E j \in 1..tb.ncols : ToFloat(tb.rows[i + 1][j]).exc # None
\* the exception of the first cell, left to right, that float() rejects
RowException(tb, i) ==
    LET j == CHOOSE c \in 1..tb.ncols :
                 /\ ToFloat(tb.rows[i + 1][c]).exc # None
                 /\ \A b \in 1..(c - 1) : ToFloat(tb.rows[i + 1][b]).exc = None
    IN ToFloat(tb.rows[i + 1][j]).exc

\* line 11
ShapeRejected(tb) == tb.nrows # 2 \/ tb.ncols < 2

\* lines 11-15: the whole function, as its outcome
ExtractRS(tb) ==
    IF ShapeRejected(tb) THEN [status |-> "ValueError", r |-> <<>>, s |-> <<>>]
    ELSE IF RowRaises(tb, 0) THEN [status |-> RowException(tb, 0), r |-> <<>>, s |-> <<>>]
    ELSE IF RowRaises(tb, 1) THEN [status |-> RowException(tb, 1), r |-> <<>>, s |-> <<>>]
    ELSE [status |-> "ok", r |-> RowFloats(tb, 0), s |-> RowFloats(tb, 1)]

\* Tables of nr rows and nc columns; rows past the second are filled with
\* one cell value.
InitExtract ==
    /\ \E nr \in 0..MaxRows, nc \in 0..MaxCols, fill \in Cells :
         \E top \in [1..Min2(nr, 2) -> [1..nc -> Cells]] :
            /\ (nr <= 2 \/ nc = 0) => fill = [kind |-> "bad", v |-> 0]
            /\ df = [nrows |-> nr, ncols |-> nc,
                     rows |-> [i \in 1..nr |->
                                 IF i <= 2 THEN top[i] ELSE [j \in 1..nc |-> fill]]]
    /\ epc = "call"
    /\ ext = None
    /\ r = <<>> /\ s = <<>> /\ P = 0 /\ t0 = 0
    /\ pc = "idle"
    /\ max_age = 0 /\ n_years = 0
    /\ F = <<>> /\ decisions = <<>>
    /\ k = 0
    /\ plan = <<>> /\ current_age = 0 /\ total_profit = 0
    /\ reads = {}
    /\ err = None /\ result = None

\* lines 5-15: one call of extract_rs_from_df on df
Extract ==
    /\ epc = "call"
    /\ ext' = ExtractRS(df)
    /\ epc' = IF ExtractRS(df).status = "ok" THEN "returned" ELSE "raised"
    /\ UNCHANGED df
    /\ UNCHANGED planVars

NextExtract == Extract

SpecExtract == InitExtract /\ [][NextExtract]_vars

Next ==
    \/ Allocate
    \/ BaseRow
    \/ InductRow
    \/ ReconStart
    \/ WalkStep
    \/ Return

Spec == Init /\ [][Next]_vars

\* =================================================================== claims
\* Preconditions of the solver (spec section 4.2): equal-length profiles of
\* length max_age + 1 with max_age >= 1, P >= 0, t0 in [0, max_age].
ValidInput ==
    /\ Len(r) = Len(s)
    /\ Len(r) - 1 >= 1
    /\ P >= 0
    /\ t0 >= 0 /\ t0 <= Len(r) - 1

TablesBuilt == pc \in {"recon", "walk", "done"}

\* One-year reward of a decision taken at an age, as the claims state it.
Reward(decision, age) ==
    IF decision = Keep THEN At(r, age) ELSE At(s, age) - P + At(r, 0)

\* Age after a decision, as the claims state it.
AgeAfter(decision, age) == IF decision = Keep THEN age + 1 ELSE 1

\* A decision sequence is feasible from an age when it never keeps a unit
\* of age max_age.
RECURSIVE Feasible(_, _, _)
Feasible(ds, i, age) ==
    IF i > Len(ds) THEN TRUE
    ELSE IF ds[i] = Keep /\ age >= Len(r) - 1 THEN FALSE
    ELSE Feasible(ds, i + 1, AgeAfter(ds[i], age))

\* Profit of the feasible decision sequence ds from its i-th decision on.
RECURSIVE SeqProfit(_, _, _)
SeqProfit(ds, i, age) ==
    IF i > Len(ds) THEN 0
    ELSE Reward(ds[i], age) + SeqProfit(ds, i + 1, AgeAfter(ds[i], age))

FeasibleProfits(n, age) ==
    { SeqProfit(ds, 1, age) :
        ds \in { d \in [1..n -> {Keep, Replace}] : Feasible(d, 1, age) } }

BestProfit(n, age) ==
    CHOOSE m \in FeasibleProfits(n, age) : \A o \in FeasibleProfits(n, age) : o <= m

\* C1: for every valid input the returned total_profit, F[n_years][t0],
\* is the maximum profit over all feasible Keep/Replace sequences of
\* n_years decisions started at age t0.
C1_TotalProfitIsOptimal ==
    (pc = "done" /\ ValidInput) =>
        result.total_profit = BestProfit(Len(r) - 1, t0)

\* C2: for every valid input (max_age = 1 included) the call raises
\* nothing, and the returned plan has n_years entries whose years are
\* 1..n_years in order and whose ages lie in [0, max_age].
C2_PlanShape ==
    ValidInput =>
        /\ pc # "raised" /\ err = None
        /\ pc = "done" =>
              /\ Len(result.plan) = Len(r) - 1
              /\ \A i \in 1..Len(result.plan) :
                    /\ result.plan[i].year = i
                    /\ result.plan[i].age \in 0..(Len(r) - 1)

C2_Witness ==
    /\ ValidInput /\ pc = "done" /\ Len(r) - 1 = 1
    /\ Len(result.plan) = 1
    /\ result.plan[1].age = 1

\* C3: on an input with max_age < 1, t0 outside [0, max_age] or P < 0 the
\* solver fails before any computation: no table cell is ever written and
\* nothing is returned.
C3_DomainErrorFirst ==
    ~ValidInput =>
        /\ result = None
        /\ pc # "done"
        /\ \A kk \in DOMAIN decisions : \A age \in DOMAIN decisions[kk] :
              decisions[kk][age] = None /\ F[kk][age] = 0

\* C4: extract_rs_from_df raises (ValueError on a wrong shape; ValueError
\* or TypeError, whichever float() raises, on a cell) exactly when the table
\* has not 2 rows, or fewer than 2 columns, or a cell that cannot be
\* coerced to a number; otherwise it returns r = row 0 and s = row 1 as
\* numbers, of one length >= 2; the table is never modified.
C4_Coercible(cell) == cell.kind \in {"num", "str"}
C4_Outcome ==
    epc # "call" =>
        LET bad == \/ df.nrows # 2
                   \/ df.ncols < 2
                   \/ \E i \in 1..df.nrows : \E j \in 1..df.ncols :
                         ~C4_Coercible(df.rows[i][j])
        IN /\ bad <=> (epc = "raised" /\ ext.status \in {"ValueError", "TypeError"})
           /\ (df.nrows # 2 \/ df.ncols < 2) => ext.status = "ValueError"
           /\ ~bad =>
                 /\ epc = "returned" /\ ext.status = "ok"
                 /\ Len(ext.r) = df.ncols /\ Len(ext.s) = df.ncols
                 /\ Len(ext.r) >= 2
                 /\ \A j \in 1..df.ncols :
                       /\ ext.r[j] = df.rows[1][j].v
                       /\ ext.s[j] = df.rows[2][j].v
C4_Extractor == []C4_Outcome /\ [][df' = df]_vars

C4_Witness ==
    /\ epc = "returned"
    /\ \E j \in 1..df.ncols : ext.r[j] # ext.s[j]
    /\ \E j \in 1..df.ncols : df.rows[2][j].kind = "str"

\* C5: for k in 2..n_years and t < max_age, a written D[k][t] is Keep when
\* keep value r[t] + F[k-1][t+1] equals replace value
\* s[t] - P + r[0] + F[k-1][1], and is Replace only when the replace value
\* is strictly greater.
C5_KeepVal(kk, age) == At(r, age) + F[kk - 1][age + 1]
C5_ReplVal(kk, age) == At(s, age) - P + At(r, 0) + F[kk - 1][1]
C5_TieBreak ==
    \A kk \in DOMAIN decisions : \A age \in DOMAIN decisions[kk] :
        (kk >= 2 /\ age < max_age /\ decisions[kk][age] # None) =>
            /\ C5_KeepVal(kk, age) = C5_ReplVal(kk, age) => decisions[kk][age] = Keep
            /\ decisions[kk][age] = Replace => C5_ReplVal(kk, age) > C5_KeepVal(kk, age)

C5_Witness ==
    /\ ValidInput /\ pc = "done"
    /\ \E kk \in 2..n_years : \E age \in 0..(max_age - 1) :
          /\ C5_KeepVal(kk, age) = C5_ReplVal(kk, age)
          /\ decisions[kk][age] = Keep
    /\ \E kk \in 2..n_years : \E age \in 0..(max_age - 1) :
          decisions[kk][age] = Replace

\* C6: for every valid input, once the tables are built, F[1][t] = r[t]
\* with decision Keep for t < max_age, and
\* F[1][max_age] = s[max_age] - P + r[0] with decision Replace.
C6_BaseCase ==
    (ValidInput /\ TablesBuilt) =>
        /\ \A age \in 0..(max_age - 1) :
              F[1][age] = At(r, age) /\ decisions[1][age] = Keep
        /\ F[1][max_age] = At(s, max_age) - P + At(r, 0)
        /\ decisions[1][max_age] = Replace

C6_Witness ==
    /\ ValidInput /\ TablesBuilt
    /\ At(r, 0) # 0 /\ At(s, max_age) # 0 /\ P # 0
    /\ \E age \in 0..(max_age - 1) : At(r, age) # 0

\* C7: in the built value table, for k in 1..n_years and t < max_age,
\* F[k][t] >= r[t] + F[k-1][t+1], row 0 being the zero row.
C7_KeepIsLowerBound ==
    TablesBuilt =>
        /\ \A age \in 0..max_age : F[0][age] = 0
        /\ \A kk \in 1..n_years : \A age \in 0..(max_age - 1) :
              F[kk][age] >= At(r, age) + F[kk - 1][age + 1]

C7_Witness ==
    /\ ValidInput /\ pc = "done"
    /\ \E kk \in 2..n_years : \E age \in 0..(max_age - 1) :
          F[kk][age] > At(r, age) + F[kk - 1][age + 1]
    /\ \E kk \in 2..n_years : \E age \in 0..(max_age - 1) :
          F[kk][age] = At(r, age) + F[kk - 1][age + 1]

\* C8: on a valid input the plan follows the decision table: the first
\* entry has age t0, the i-th decision is D[n_years - i + 1][age_i], the
\* next age is 1 after Replace and age_i + 1 after Keep, and the walk
\* subscripts the tables only with k in [1, n_years], t in [0, max_age].
C8_PlanFollowsTable ==
    (ValidInput /\ pc \in {"walk", "done"}) =>
        /\ reads \subseteq (1..n_years) \X (0..max_age)
        /\ Len(plan) >= 1 => plan[1].age = t0
        /\ \A i \in 1..Len(plan) :
              plan[i].decision = decisions[n_years - i + 1][plan[i].age]
        /\ \A i \in 1..(Len(plan) - 1) :
              plan[i + 1].age = IF plan[i].decision = Replace THEN 1
                                ELSE plan[i].age + 1
        /\ pc = "done" => result.plan = plan

C8_Witness ==
    /\ ValidInput /\ pc = "done"
    /\ Len(plan) >= 2
    /\ \E i \in 1..(Len(plan) - 1) :
          plan[i].decision = Replace /\ plan[i].age # 0 /\ plan[i + 1].age = 1

\* C9: on a valid input every written D[k][max_age], k in 1..n_years, is
\* Replace, all of them once the tables are built, and no plan entry is
\* Keep at age max_age.
C9_ForcedReplacement ==
    (ValidInput /\ pc \notin {"start", "idle"}) =>
        /\ \A kk \in 1..n_years : decisions[kk][max_age] \in {None, Replace}
        /\ TablesBuilt => \A kk \in 1..n_years : decisions[kk][max_age] = Replace
        /\ \A i \in 1..Len(plan) :
              ~(plan[i].decision = Keep /\ plan[i].age = max_age)

C9_Witness ==
    /\ ValidInput /\ pc = "done" /\ n_years >= 2
    /\ \E i \in 1..Len(plan) : plan[i].age = max_age /\ plan[i].decision = Replace

\* C10: on a valid input the one-year rewards of the returned plan's
\* entries (r[age] for Keep, s[age] - P + r[0] for Replace) sum to the
\* returned total_profit.
RECURSIVE PlanReward(_, _)
PlanReward(pl, i) ==
    IF i > Len(pl) THEN 0
    ELSE Reward(pl[i].decision, pl[i].age) + PlanReward(pl, i + 1)

C10_PlanRealisesProfit ==
    (ValidInput /\ pc = "done") =>
        PlanReward(result.plan, 1) = result.total_profit

C10_Witness ==
    /\ ValidInput /\ pc = "done" /\ n_years >= 2
    /\ \E i \in 1..Len(result.plan) : result.plan[i].decision = Replace
    /\ \E i \in 1..Len(result.plan) : result.plan[i].decision = Keep
    /\ result.total_profit # 0

====
